---- MODULE Spec2Model ----
(***************************************************************************)
(* Verification model of the tutorial examples:                            *)
(*   - SimpleMemory            (examples/04_agent_memory.py)               *)
(*   - AgentOrchestrator       (examples/05_orchestration.py)              *)
(*   - PersonalAssistant       (examples/06_chat_agent.py)                 *)
(*                                                                         *)
(* A Python str is modelled as a sequence of characters; each character is *)
(* a one-element TLA+ string or, for runs of letters that contain no       *)
(* character the code looks at, a chunk such as "Kyoto".                   *)
(***************************************************************************)
EXTENDS Integers, Sequences, FiniteSets, TLC

VARIABLES
    collections,   \* SimpleMemory.collections: name -> list of records
    last,          \* the last SimpleMemory call: arguments, outcome
    pc,            \* create_travel_plan: position of the coroutine
    args,          \* create_travel_plan: destination, dates, preferences
    stream,        \* responses the invoked agent has still to yield
    acc,           \* research_response / planning_response / optimization_response
    invoked,       \* log of invoke_stream calls: agent name and prompt
    arrived,       \* log of the items each stage yielded, in arrival order
    plan,          \* outcome of create_travel_plan
    reminders,     \* PersonalAssistant.reminders
    reply          \* the last call of a reminder function: argument, outcome

memVars  == <<collections, last>>
planVars == <<pc, args, stream, acc, invoked, arrived, plan>>
remVars  == <<reminders, reply>>
vars     == <<collections, last, pc, args, stream, acc, invoked, arrived, plan,
             reminders, reply>>

-----------------------------------------------------------------------------
(* Bounds *)

MaxRecords == 3     \* records stored in the whole memory
MaxLimit   == 2     \* largest limit passed to search
MaxNegative == 1    \* the smallest limit passed to search is -MaxNegative

-----------------------------------------------------------------------------
(* Python str helpers *)

Range(s) == {s[i] : i \in 1..Len(s)}

Min(a, b) == IF a < b THEN a ELSE b
Max(a, b) == IF a > b THEN a ELSE b

\* str.lower() on one character
LowerChar(ch) ==
    CASE ch = "A" -> "a"
      [] ch = "B" -> "b"
      [] OTHER    -> ch

\* str.lower()
Lower(s) == [i \in 1..Len(s) |-> LowerChar(s[i])]

IsSpace(ch) == ch = " "

\* str.split() without arguments: the maximal runs of non-whitespace
RECURSIVE SplitFrom(_, _, _)
SplitFrom(s, i, cur) ==
    IF i > Len(s)
    THEN IF cur = <<>> THEN <<>> ELSE <<cur>>
    ELSE IF IsSpace(s[i])
         THEN (IF cur = <<>> THEN <<>> ELSE <<cur>>) \o SplitFrom(s, i + 1, <<>>)
         ELSE SplitFrom(s, i + 1, Append(cur, s[i]))

Split(s) == SplitFrom(s, 1, <<>>)

\* the Python operator `sub in s` on two str
Contains(s, sub) ==
    \E i \in 0..(Len(s) - Len(sub)) : SubSeq(s, i + 1, i + Len(sub)) = sub

\* the Python slice s[:n]
SliceTo(s, n) ==
    IF n >= 0
    THEN SubSeq(s, 1, Min(n, Len(s)))
    ELSE SubSeq(s, 1, Max(Len(s) + n, 0))

-----------------------------------------------------------------------------
(* SimpleMemory *)

Names      == {"user_preferences", "notes"}
Records    == { [category |-> "food",    text |-> <<"a", "B">>],
                [category |-> "outdoor", text |-> <<"A", " ", "z">>] }
Queries    == { <<"a">>, <<"A", " ", "b">>, <<"a", " ", " ", "a">>,
                <<"a", "b">>, <<"z">>, <<" ">> }
Limits     == (0 - MaxNegative)..MaxLimit

Stored(colls) ==
    LET RECURSIVE Sum(_)
        Sum(S) == IF S = {} THEN 0
                  ELSE LET n == CHOOSE n \in S : TRUE
                       IN Len(colls[n]) + Sum(S \ {n})
    IN Sum(DOMAIN colls)

\* create_collection without its membership test
create_collection_reset(colls, name) ==
    [n \in DOMAIN colls \cup {name} |-> IF n = name THEN <<>> ELSE colls[n]]

\* SimpleMemory.create_collection
create_collection(colls, name) ==
    IF name \notin DOMAIN colls
    THEN [n \in DOMAIN colls \cup {name} |->
              IF n = name THEN <<>> ELSE colls[n]]
    ELSE colls

\* save_information without the automatic create_collection
save_information_nocreate(colls, collection, category, text) ==
    IF collection \notin DOMAIN colls
    THEN [collections |-> colls, raised |-> "KeyError"]
    ELSE [collections |->
              [colls EXCEPT ![collection] =
                   Append(@, [category |-> category, text |-> text])],
          raised |-> "none"]

\* SimpleMemory.save_information: the collections afterwards and what it raised
save_information(colls, collection, category, text) ==
    LET created == IF collection \notin DOMAIN colls
                   THEN create_collection(colls, collection)
                   ELSE colls
    IN [collections |->
            [created EXCEPT ![collection] =
                 Append(@, [category |-> category, text |-> text])],
        raised |-> "none"]

\* the inner loop of search over set(keywords): repeated keywords count once
Score_dedup(keywords, text_lower) ==
    Cardinality({k \in Range(keywords) : Contains(text_lower, k)})

\* the inner loop of search: one point for each keyword found in the text
RECURSIVE Score(_, _)
Score(keywords, text_lower) ==
    IF keywords = <<>> THEN 0
    ELSE (IF Contains(text_lower, Head(keywords)) THEN 1 ELSE 0)
         + Score(Tail(keywords), text_lower)

\* the outer loop of search: (item, score) for the items with score > 0;
\* an item is identified by its position in the collection
RECURSIVE ScoredItems(_, _, _)
ScoredItems(items, keywords, i) ==
    IF i > Len(items) THEN <<>>
    ELSE LET score == Score(keywords, Lower(items[i].text))
         IN (IF score > 0 THEN << [item |-> i, score |-> score] >> ELSE <<>>)
            \o ScoredItems(items, keywords, i + 1)

\* an unstable descending sort: x goes in front of the elements it ties with
InsertDesc_unstable(sorted, x) ==
    LET k == Cardinality({j \in 1..Len(sorted) : sorted[j].score > x.score})
    IN SubSeq(sorted, 1, k) \o <<x>> \o SubSeq(sorted, k + 1, Len(sorted))

\* where list.sort(key=score, reverse=True) puts x among the sorted elements
\* before it: behind every element whose score is not smaller
InsertDesc(sorted, x) ==
    LET k == Cardinality({j \in 1..Len(sorted) : sorted[j].score >= x.score})
    IN SubSeq(sorted, 1, k) \o <<x>> \o SubSeq(sorted, k + 1, Len(sorted))

\* scored_items.sort(key=lambda x: x[1], reverse=True)
RECURSIVE SortDesc(_)
SortDesc(s) ==
    IF s = <<>> THEN <<>>
    ELSE InsertDesc(SortDesc(SubSeq(s, 1, Len(s) - 1)), s[Len(s)])

\* scored_items[:limit]
TopItems(sorted, limit) == SliceTo(sorted, limit)

\* SimpleMemory.search without its first two lines
search_unguarded(colls, collection, query, limit) ==
    IF collection \notin DOMAIN colls
    THEN [picked |-> <<>>, scored |-> <<>>, raised |-> "KeyError"]
    ELSE LET keywords     == Split(Lower(query))
             scored_items == ScoredItems(colls[collection], keywords, 1)
             top          == TopItems(SortDesc(scored_items), limit)
         IN [picked |-> [j \in 1..Len(top) |-> top[j].item],
             scored |-> scored_items,
             raised |-> "none"]

\* SimpleMemory.search: the positions of the returned items in result order,
\* the local scored_items before it is sorted, and what the call raised
search(colls, collection, query, limit) ==
    IF collection \notin DOMAIN colls
    THEN [picked |-> <<>>, scored |-> <<>>, raised |-> "none"]
    ELSE LET keywords     == Split(Lower(query))
             scored_items == ScoredItems(colls[collection], keywords, 1)
             top          == TopItems(SortDesc(scored_items), limit)
         IN [picked |-> [j \in 1..Len(top) |-> top[j].item],
             scored |-> scored_items,
             raised |-> "none"]

\* no reminder function has been called
NoReply == [op |-> "none", arg |-> <<>>, kind |-> "none", id |-> <<>>,
            task |-> <<>>, time |-> <<>>, count |-> 0, raised |-> "none"]

NoCall == [op |-> "none", collection |-> "", category |-> "", text |-> <<>>,
           query |-> <<>>, limit |-> 0, scored |-> <<>>, picked |-> <<>>,
           result |-> <<>>, prompt |-> <<>>, raised |-> "none"]

CreateCollection(name) ==
    /\ collections' = create_collection(collections, name)
    /\ last' = [NoCall EXCEPT !.op = "create_collection", !.collection = name]
    /\ UNCHANGED <<planVars, remVars>>

SaveInformation(name, category, text) ==
    /\ Stored(collections) < MaxRecords
    /\ LET r == save_information(collections, name, category, text)
       IN /\ collections' = r.collections
          /\ last' = [NoCall EXCEPT !.op = "save_information",
                                    !.collection = name,
                                    !.category = category,
                                    !.text = text,
                                    !.raised = r.raised]
    /\ UNCHANGED <<planVars, remVars>>

Search(name, query, limit) ==
    LET r == search(collections, name, query, limit)
    IN /\ last' = [NoCall EXCEPT
                      !.op = "search", !.collection = name,
                      !.query = query, !.limit = limit,
                      !.scored = r.scored,
                      !.picked = r.picked,
                      !.result = [j \in 1..Len(r.picked) |->
                                     collections[name][r.picked[j]]],
                      !.raised = r.raised]
       /\ UNCHANGED collections
       /\ UNCHANGED <<planVars, remVars>>

collection_name == "user_preferences"

QueryLimit == 3   \* limit=3 in the call of memory.search

\* stand-ins for the fixed texts of lines 158 and 163
Header      == "user information:"
Question    == "question: "
Instruction == "answer from the user information above:"
Newline     == "\n"

\* query_with_memory of main(): the items memory.search returned, the
\* enhanced query (<<>> when no value is returned) and what the call raised.
\* Each result is a dict, so result.text in the first turn of the loop
\* raises AttributeError.
query_with_memory(colls, query) ==
    LET r       == search(colls, collection_name, query, QueryLimit)
        results == [j \in 1..Len(r.picked) |-> colls[collection_name][r.picked[j]]]
        context == <<>>
    IN IF results # <<>>
       THEN [results |-> results, prompt |-> <<>>, raised |-> "AttributeError"]
       ELSE [results |-> results,
             prompt  |-> context \o <<Newline, Question>> \o query
                                 \o <<Newline, Instruction>>,
             raised  |-> "none"]

QueryWithMemory(query) ==
    LET r == query_with_memory(collections, query)
    IN /\ last' = [NoCall EXCEPT
                      !.op = "query_with_memory",
                      !.collection = collection_name,
                      !.query = query, !.limit = QueryLimit,
                      !.result = r.results,
                      !.prompt = r.prompt,
                      !.raised = r.raised]
       /\ UNCHANGED collections
       /\ UNCHANGED <<planVars, remVars>>

\* a fresh SimpleMemory; create_travel_plan has not been called
MemInit ==
    /\ collections = <<>>
    /\ last = NoCall
    /\ pc = "idle"
    /\ args = <<>>
    /\ stream = <<>>
    /\ acc = <<>>
    /\ invoked = <<>>
    /\ arrived = <<>>
    /\ plan = <<>>
    /\ reminders = <<>>
    /\ reply = NoReply

MemNext ==
    \/ \E n \in Names : CreateCollection(n)
    \/ \E n \in Names, r \in Records : SaveInformation(n, r.category, r.text)
    \/ \E n \in Names, q \in Queries, l \in Limits : Search(n, q, l)
    \/ \E q \in Queries : QueryWithMemory(q)

MemSpec == MemInit /\ [][MemNext]_vars

-----------------------------------------------------------------------------
(* Properties of SimpleMemory *)

Searched == last.op = "search"

\* the relevance score as the specification states it: the number of token
\* occurrences of the lowercased, whitespace-split query that are substrings
\* of the lowercased text
RelevanceScore(query, text) ==
    LET tokens == Split(Lower(query))
    IN Cardinality({k \in 1..Len(tokens) : Contains(Lower(text), tokens[k])})

\* C1: search returns at most `limit` records, and the empty sequence for
\* every limit <= 0.
C1_AtMostLimit ==
    Searched =>
        /\ last.limit >= 0 => Len(last.result) <= last.limit
        /\ last.limit <= 0 => last.result = <<>>

\* C2: the result of search is ordered by score descending, and of two
\* returned records with equal score the one saved earlier comes first.
C2_RankedStable ==
    Searched =>
        \A i, j \in 1..Len(last.picked) :
            i < j =>
                LET items == collections[last.collection]
                    si == RelevanceScore(last.query, items[last.picked[i]].text)
                    sj == RelevanceScore(last.query, items[last.picked[j]].text)
                IN /\ si >= sj
                   /\ si = sj => last.picked[i] < last.picked[j]

\* a search that ranked a later record above the first one and returned a tie
C2_Witness ==
    /\ Searched
    /\ Len(last.picked) >= 2
    /\ last.picked[1] > 1
    /\ LET items == collections[last.collection]
       IN /\ RelevanceScore(last.query, items[last.picked[1]].text)
              = RelevanceScore(last.query, items[last.picked[2]].text)
          /\ RelevanceScore(last.query, items[1].text) >= 1

\* C3: the score of a record is the number of query tokens (with repetitions)
\* that are substrings of its lowercased text; exactly the records with score
\* >= 1 are candidates, only candidates are returned, and a query no token of
\* which occurs in any stored record yields the empty sequence.
C3_ScoreIsTokenCount ==
    (Searched /\ last.collection \in DOMAIN collections) =>
        LET items == collections[last.collection]
        IN /\ \A k \in 1..Len(last.scored) :
                  /\ last.scored[k].score
                         = RelevanceScore(last.query, items[last.scored[k].item].text)
                  /\ last.scored[k].score >= 1
           /\ {last.scored[k].item : k \in 1..Len(last.scored)}
                  = {i \in 1..Len(items) :
                         RelevanceScore(last.query, items[i].text) >= 1}
           /\ Range(last.picked) \subseteq
                  {last.scored[k].item : k \in 1..Len(last.scored)}
           /\ (\A i \in 1..Len(items) :
                   RelevanceScore(last.query, items[i].text) = 0)
                  => last.result = <<>>

\* a search with a repeated token that scored a record 2, next to a record
\* that was discarded
C3_Witness ==
    /\ Searched
    /\ last.query = <<"a", " ", " ", "a">>
    /\ \E k \in 1..Len(last.scored) : last.scored[k].score = 2
    /\ last.result # <<>>

\* a search none of whose tokens occurs in a non-empty collection
C3_WitnessNoMatch ==
    /\ Searched
    /\ last.collection \in DOMAIN collections
    /\ collections[last.collection] # <<>>
    /\ last.limit >= 1
    /\ last.result = <<>>

\* the tokens of the query as typed, one of which occurs in the text as typed
TokenIn(query, text) == \E k \in Range(Split(query)) : Contains(text, k)

\* C4: save_information on a collection that does not exist raises nothing,
\* creates the collection and appends the record; a search of the collection
\* right afterwards with a token contained in the text and limit >= 1 returns
\* exactly that record.
C4_SaveAutoCreates ==
    [][ (last'.op = "save_information"
            /\ last'.collection \notin DOMAIN collections)
        => /\ last'.raised = "none"
           /\ last'.collection \in DOMAIN collections'
           /\ collections'[last'.collection]
                 = << [category |-> last'.category, text |-> last'.text] >>
           /\ \A q \in Queries, l \in 1..MaxLimit :
                 TokenIn(q, last'.text) =>
                     LET r == search(collections', last'.collection, q, l)
                     IN /\ r.picked = <<1>>
                        /\ r.raised = "none" ]_vars

\* a save that created its collection, with a query that finds the record
C4_Witness ==
    /\ last.op = "save_information"
    /\ last.raised = "none"
    /\ last.collection \in DOMAIN collections
    /\ Len(collections[last.collection]) = 1
    /\ \E q \in Queries : TokenIn(q, last.text)

IsPrefix(s, t) == Len(s) <= Len(t) /\ SubSeq(t, 1, Len(s)) = s

\* C5: collections are append-only: create_collection on an existing name
\* and search change nothing, save_information appends exactly its record at
\* the end of its collection (duplicates included), and no call changes or
\* reorders any record stored before.
C5_AppendOnly ==
    [][ /\ \A n \in DOMAIN collections :
              /\ n \in DOMAIN collections'
              /\ IsPrefix(collections[n], collections'[n])
        /\ (last'.op = "create_collection"
               /\ last'.collection \in DOMAIN collections)
              => collections' = collections
        /\ last'.op = "search" => collections' = collections
        /\ last'.op = "save_information" =>
              LET c   == last'.collection
                  old == IF c \in DOMAIN collections THEN collections[c] ELSE <<>>
              IN /\ DOMAIN collections' = DOMAIN collections \cup {c}
                 /\ collections'[c]
                       = Append(old, [category |-> last'.category,
                                      text |-> last'.text])
                 /\ \A n \in DOMAIN collections \ {c} :
                       collections'[n] = collections[n] ]_vars

\* a save of a text its collection already holds, next to another collection
C5_Witness ==
    /\ last.op = "save_information"
    /\ LET items == collections[last.collection]
       IN /\ Len(items) >= 2
          /\ \E i \in 1..(Len(items) - 1) : items[i] = items[Len(items)]
    /\ \E n \in DOMAIN collections :
          n # last.collection /\ collections[n] # <<>>

\* a create_collection on a collection that holds records
C5_WitnessCreate ==
    /\ last.op = "create_collection"
    /\ last.collection \in DOMAIN collections
    /\ Len(collections[last.collection]) >= 2

\* C6: search on a collection that does not exist returns the empty
\* sequence, raises nothing and does not create the collection.
C6_SearchMissing ==
    [][ (last'.op = "search" /\ last'.collection \notin DOMAIN collections)
        => /\ last'.result = <<>>
           /\ last'.raised = "none"
           /\ DOMAIN collections' = DOMAIN collections ]_vars

\* a search of a missing collection while the other collection holds a match
C6_Witness ==
    /\ Searched
    /\ last.collection \notin DOMAIN collections
    /\ \E n \in DOMAIN collections :
          \E i \in 1..Len(collections[n]) :
              RelevanceScore(last.query, collections[n][i].text) >= 1

-----------------------------------------------------------------------------
(* Python str and JSON helpers of create_travel_plan *)

Quote     == "\""
Backslash == "\\"
Delimiter == "zhi"      \* stands for the one-character separator of line 203
Numbers   == {"3", "42"}

\* Python values: a str, a list, None, a number, a dict (its items in order)
Str(chars)  == [t |-> "str",  v |-> chars]
List(elems) == [t |-> "list", v |-> elems]
None        == [t |-> "null", v |-> <<>>]
Num(n)      == [t |-> "num",  v |-> <<n>>]
Dict(items) == [t |-> "obj",  v |-> items]

\* str.find(ch): the index (from 0) of the first ch, or -1
Find(s, ch) ==
    IF \E i \in 1..Len(s) : s[i] = ch
    THEN (CHOOSE i \in 1..Len(s) :
              s[i] = ch /\ \A j \in 1..(i - 1) : s[j] # ch) - 1
    ELSE -1

\* str.rfind(ch): the index (from 0) of the last ch, or -1
RFind(s, ch) ==
    IF \E i \in 1..Len(s) : s[i] = ch
    THEN (CHOOSE i \in 1..Len(s) :
              s[i] = ch /\ \A j \in (i + 1)..Len(s) : s[j] # ch) - 1
    ELSE -1

\* the Python slice s[a:b] for 0 <= a
Slice(s, a, b) == SubSeq(s, a + 1, Min(b, Len(s)))

\* str.strip()
RECURSIVE LStrip(_)
LStrip(s) == IF s # <<>> /\ IsSpace(Head(s)) THEN LStrip(Tail(s)) ELSE s

RECURSIVE RStrip(_)
RStrip(s) ==
    IF s # <<>> /\ IsSpace(s[Len(s)]) THEN RStrip(SubSeq(s, 1, Len(s) - 1)) ELSE s

Strip(s) == LStrip(RStrip(s))

\* str.split(sep) for a one-character sep: the parts between the separators
RECURSIVE SplitOnFrom(_, _, _, _)
SplitOnFrom(s, sep, i, cur) ==
    IF i > Len(s) THEN <<cur>>
    ELSE IF s[i] = sep
         THEN <<cur>> \o SplitOnFrom(s, sep, i + 1, <<>>)
         ELSE SplitOnFrom(s, sep, i + 1, Append(cur, s[i]))

SplitOn(s, sep) == SplitOnFrom(s, sep, 1, <<>>)

\* dict[key] = value while json.loads builds a dict: a repeated key keeps its
\* place and takes the later value
Put(items, key, value) ==
    IF \E i \in 1..Len(items) : items[i].k = key
    THEN [i \in 1..Len(items) |->
              IF items[i].k = key THEN [k |-> key, val |-> value] ELSE items[i]]
    ELSE Append(items, [k |-> key, val |-> value])

\* dict.get(key, default)
Get(dict, key, default) ==
    IF \E i \in 1..Len(dict.v) : dict.v[i].k = key
    THEN dict.v[CHOOSE i \in 1..Len(dict.v) : dict.v[i].k = key].val
    ELSE default

\* json.loads: a recursive-descent parse; pos is the position behind the value
Fail == [ok |-> FALSE, val |-> None, pos |-> 0]
Ok(value, pos) == [ok |-> TRUE, val |-> value, pos |-> pos]

RECURSIVE SkipWs(_, _)
SkipWs(s, i) == IF i <= Len(s) /\ IsSpace(s[i]) THEN SkipWs(s, i + 1) ELSE i

\* the characters of a JSON string behind its opening quote
RECURSIVE ParseChars(_, _, _)
ParseChars(s, j, cur) ==
    IF j > Len(s) THEN Fail
    ELSE IF s[j] = Quote THEN Ok(cur, j + 1)
    ELSE IF s[j] = Backslash
         THEN IF j + 1 <= Len(s) /\ s[j + 1] \in {Quote, Backslash}
              THEN ParseChars(s, j + 2, Append(cur, s[j + 1]))
              ELSE Fail
    ELSE ParseChars(s, j + 1, Append(cur, s[j]))

RECURSIVE ParseValue(_, _), ParseElements(_, _, _, _), ParseMembers(_, _, _, _)

ParseValue(s, i) ==
    IF i > Len(s) THEN Fail
    ELSE CASE s[i] = Quote ->
                 LET r == ParseChars(s, i + 1, <<>>)
                 IN IF r.ok THEN Ok(Str(r.val), r.pos) ELSE Fail
           [] s[i] = "{" -> ParseMembers(s, SkipWs(s, i + 1), <<>>, TRUE)
           [] s[i] = "[" -> ParseElements(s, SkipWs(s, i + 1), <<>>, TRUE)
           [] s[i] = "null" -> Ok(None, i + 1)
           [] s[i] \in Numbers -> Ok(Num(s[i]), i + 1)
           [] OTHER -> Fail

ParseElements(s, i, elems, first) ==
    IF i > Len(s) THEN Fail
    ELSE IF first /\ s[i] = "]" THEN Ok(List(elems), i + 1)
    ELSE LET r == ParseValue(s, i)
         IN IF ~r.ok THEN Fail
            ELSE LET j == SkipWs(s, r.pos)
                 IN IF j > Len(s) THEN Fail
                    ELSE IF s[j] = "]"
                         THEN Ok(List(Append(elems, r.val)), j + 1)
                    ELSE IF s[j] = ","
                         THEN ParseElements(s, SkipWs(s, j + 1),
                                            Append(elems, r.val), FALSE)
                    ELSE Fail

ParseMembers(s, i, items, first) ==
    IF i > Len(s) THEN Fail
    ELSE IF first /\ s[i] = "}" THEN Ok(Dict(items), i + 1)
    ELSE IF s[i] # Quote THEN Fail
    ELSE LET key == ParseChars(s, i + 1, <<>>)
         IN IF ~key.ok THEN Fail
            ELSE LET c == SkipWs(s, key.pos)
                 IN IF c > Len(s) \/ s[c] # ":" THEN Fail
                    ELSE LET r == ParseValue(s, SkipWs(s, c + 1))
                         IN IF ~r.ok THEN Fail
                            ELSE LET j == SkipWs(s, r.pos)
                                 IN IF j > Len(s) THEN Fail
                                    ELSE IF s[j] = "}"
                                         THEN Ok(Dict(Put(items, key.val, r.val)),
                                                 j + 1)
                                    ELSE IF s[j] = ","
                                         THEN ParseMembers(s, SkipWs(s, j + 1),
                                                  Put(items, key.val, r.val), FALSE)
                                    ELSE Fail

\* json.loads(s): one value, nothing but whitespace around it
JsonLoads(s) ==
    LET r == ParseValue(s, SkipWs(s, 1))
    IN IF r.ok /\ SkipWs(s, r.pos) > Len(s) THEN r ELSE Fail

\* json.dumps: the text of a value
RECURSIVE EscapeChars(_)
EscapeChars(chars) ==
    IF chars = <<>> THEN <<>>
    ELSE (IF Head(chars) \in {Quote, Backslash}
          THEN <<Backslash, Head(chars)>> ELSE <<Head(chars)>>)
         \o EscapeChars(Tail(chars))

DumpsStr(chars) == <<Quote>> \o EscapeChars(chars) \o <<Quote>>

RECURSIVE Dumps(_), DumpsElements(_), DumpsItems(_)

Dumps(value) ==
    CASE value.t = "str"  -> DumpsStr(value.v)
      [] value.t = "list" -> <<"[">> \o DumpsElements(value.v) \o <<"]">>
      [] value.t = "obj"  -> <<"{">> \o DumpsItems(value.v) \o <<"}">>
      [] value.t = "num"  -> value.v
      [] OTHER            -> <<"null">>

DumpsElements(elems) ==
    IF elems = <<>> THEN <<>>
    ELSE Dumps(Head(elems))
         \o (IF Len(elems) > 1 THEN <<",", " ">> ELSE <<>>)
         \o DumpsElements(Tail(elems))

DumpsItems(items) ==
    IF items = <<>> THEN <<>>
    ELSE DumpsStr(Head(items).k) \o <<":", " ">> \o Dumps(Head(items).val)
         \o (IF Len(items) > 1 THEN <<",", " ">> ELSE <<>>)
         \o DumpsItems(Tail(items))

-----------------------------------------------------------------------------
(* AgentOrchestrator.create_travel_plan *)

MaxChunks == 2      \* responses a generated text arrives in

Stages == {"research", "plan", "optimize"}

\* class TravelPlan
TravelPlan(destination, start_date, end_date, activities, accommodation, transportation, budget_estimate, notes) ==
    [destination |-> destination, start_date |-> start_date,
     end_date |-> end_date, activities |-> activities,
     accommodation |-> accommodation, transportation |-> transportation,
     budget_estimate |-> budget_estimate, notes |-> notes]

Fields == {"destination", "start_date", "end_date", "activities",
           "accommodation", "transportation", "budget_estimate", "notes"}

\* the fixed text of lines 205-208 and 218-221, as one chunk
Placeholder == <<"see detailed response">>

\* lines 104-113
research_prompt(destination, dates) ==
    [agent |-> "researcher", destination |-> destination, dates |-> dates]

\* lines 125-141
planning_prompt(destination, dates, preferences, research_response) ==
    [agent |-> "planner", destination |-> destination, dates |-> dates,
     research_response |-> research_response,
     preferences_str |-> Dumps(preferences)]

\* str(v) in an f-string, v a str or a list of str
RECURSIVE ReprElements(_)
ReprElements(elems) ==
    IF elems = <<>> THEN <<>>
    ELSE <<"'">> \o Head(elems).v \o <<"'">>
         \o (IF Len(elems) > 1 THEN <<",", " ">> ELSE <<>>)
         \o ReprElements(Tail(elems))

Format(v) == IF v.t = "list" THEN <<"[">> \o ReprElements(v.v) \o <<"]">> ELSE v.v

\* "\n".join([f"- {k}: {v}" for k, v in preferences.items()])
RECURSIVE preferences_details(_)
preferences_details(items) ==
    IF items = <<>> THEN <<>>
    ELSE <<"-", " ">> \o Head(items).k \o <<":", " ">> \o Format(Head(items).val)
         \o (IF Len(items) > 1 THEN <<"\n">> ELSE <<>>)
         \o preferences_details(Tail(items))

\* lines 153-170
optimization_prompt(destination, dates, preferences, planning_response) ==
    [agent |-> "optimizer", destination |-> destination, dates |-> dates,
     planning_response |-> planning_response,
     preferences_details |-> preferences_details(preferences.v)]

\* an item of response.items: one with a text attribute, one without
Text(chars) == [has_text |-> TRUE, text |-> chars]
NoText      == [has_text |-> FALSE, text |-> <<>>]

\* the loop over response.items that overwrites instead of appending
RECURSIVE Accumulate_overwrite(_, _)
Accumulate_overwrite(response_text, items) ==
    IF items = <<>> THEN response_text
    ELSE Accumulate_overwrite(
             IF Head(items).has_text THEN Head(items).text ELSE response_text,
             Tail(items))

\* the loop over response.items: response_text += item.text where there is one
RECURSIVE Accumulate(_, _)
Accumulate(response_text, items) ==
    IF items = <<>> THEN response_text
    ELSE Accumulate(
             IF Head(items).has_text
             THEN response_text \o Head(items).text ELSE response_text,
             Tail(items))

\* the TravelPlan of lines 201-210 and 214-223 with the default notes = ""
FallbackPlan_nonotes(destination, dates, optimization_response) ==
    TravelPlan(
        Str(destination),
        Str(IF Contains(dates, <<Delimiter>>)
            THEN Strip(SplitOn(dates, Delimiter)[1]) ELSE dates),
        Str(IF Contains(dates, <<Delimiter>>)
            THEN Strip(SplitOn(dates, Delimiter)[2]) ELSE <<>>),
        List(<<Str(Placeholder)>>),
        Str(Placeholder),
        Str(Placeholder),
        Str(Placeholder),
        Str(<<>>))

\* the TravelPlan of lines 201-210 and 214-223
FallbackPlan(destination, dates, optimization_response) ==
    TravelPlan(
        Str(destination),
        Str(IF Contains(dates, <<Delimiter>>)
            THEN Strip(SplitOn(dates, Delimiter)[1]) ELSE dates),
        Str(IF Contains(dates, <<Delimiter>>)
            THEN Strip(SplitOn(dates, Delimiter)[2]) ELSE <<>>),
        List(<<Str(Placeholder)>>),
        Str(Placeholder),
        Str(Placeholder),
        Str(Placeholder),
        Str(optimization_response))

\* the TravelPlan of lines 189-198 with "" as the default of every str field
PlanFromJson_blank(plan_data, destination) ==
    TravelPlan(
        Get(plan_data, <<"destination">>, Str(<<>>)),
        Get(plan_data, <<"start_date">>, Str(<<>>)),
        Get(plan_data, <<"end_date">>, Str(<<>>)),
        Get(plan_data, <<"activities">>, List(<<>>)),
        Get(plan_data, <<"accommodation">>, Str(<<>>)),
        Get(plan_data, <<"transportation">>, Str(<<>>)),
        Get(plan_data, <<"budget_estimate">>, Str(<<>>)),
        Get(plan_data, <<"notes">>, Str(<<>>)))

\* the TravelPlan of lines 189-198
PlanFromJson(plan_data, destination) ==
    TravelPlan(
        Get(plan_data, <<"destination">>, Str(destination)),
        Get(plan_data, <<"start_date">>, Str(<<>>)),
        Get(plan_data, <<"end_date">>, Str(<<>>)),
        Get(plan_data, <<"activities">>, List(<<>>)),
        Get(plan_data, <<"accommodation">>, Str(<<>>)),
        Get(plan_data, <<"transportation">>, Str(<<>>)),
        Get(plan_data, <<"budget_estimate">>, Str(<<>>)),
        Get(plan_data, <<"notes">>, Str(<<>>)))

\* json_end of line 183 without the + 1
JsonEnd_short(optimization_response) == RFind(optimization_response, "}")

\* json_end of line 183
JsonEnd(optimization_response) == RFind(optimization_response, "}") + 1

\* json_start of line 182
JsonStart(optimization_response) == Find(optimization_response, "{")

\* the body of the try statement, lines 182-210: the plan it returns, or the
\* exception json.loads raised
TryExtract(destination, dates, optimization_response) ==
    LET json_start == JsonStart(optimization_response)
        json_end   == JsonEnd(optimization_response)
    IN IF json_start >= 0 /\ json_end > json_start
       THEN LET json_str == Slice(optimization_response, json_start, json_end)
                loaded   == JsonLoads(json_str)
            IN IF loaded.ok
               THEN [exception |-> FALSE,
                     plan |-> PlanFromJson(loaded.val, destination)]
               ELSE [exception |-> TRUE, plan |-> <<>>]
       ELSE [exception |-> FALSE,
             plan |-> FallbackPlan(destination, dates, optimization_response)]

\* lines 180-223 without the except clause
Extract_uncaught(destination, dates, optimization_response) ==
    LET try == TryExtract(destination, dates, optimization_response)
    IN IF try.exception
       THEN [raised |-> TRUE, plan |-> <<>>]
       ELSE [raised |-> FALSE, plan |-> try.plan]

\* lines 180-223: the try statement with its except clause
Extract(destination, dates, optimization_response) ==
    LET try == TryExtract(destination, dates, optimization_response)
    IN IF try.exception
       THEN [raised |-> FALSE,
             plan |-> FallbackPlan(destination, dates, optimization_response)]
       ELSE [raised |-> FALSE, plan |-> try.plan]

-----------------------------------------------------------------------------
(* The callers' arguments and the texts the agents generate *)

Destinations == { <<"Kyoto">>, <<"Taipei">> }

DatesSet == { <<"2025-03-15", " ", Delimiter, " ", "2025-03-20">>,
              <<"March">>,
              <<"3/15", Delimiter, "3/18", Delimiter, "3/20">> }

PreferencesSet ==
    { Dict(<< [k |-> <<"interests">>,
               val |-> List(<<Str(<<"history">>), Str(<<"food">>)>>)],
              [k |-> <<"budget">>, val |-> Str(<<"medium">>)] >>) }

ResearchTexts == { <<"temples", " ", "and", " ", "buses">>, <<"rainy">> }
PlanningTexts == { <<"day1", ":", " ", "walk", "\n", "day2", ":", " ", "rest">>,
                   <<"rest">> }

\* JSON objects with all eight recognized keys
FullPlans ==
    { Dict(<< [k |-> <<"destination">>, val |-> Str(<<"Nara">>)],
              [k |-> <<"start_date">>, val |-> Str(<<"2025-03-16">>)],
              [k |-> <<"end_date">>, val |-> Str(<<"2025-03-19">>)],
              [k |-> <<"activities">>,
               val |-> List(<<Str(<<"tea", " ", "ceremony">>),
                              Str(<<"kimono">>), Str(<<"deer", " ", "park">>)>>)],
              [k |-> <<"accommodation">>, val |-> Str(<<"ryokan">>)],
              [k |-> <<"transportation">>, val |-> Str(<<"train">>)],
              [k |-> <<"budget_estimate">>, val |-> Str(<<"42", " ", "JPY">>)],
              [k |-> <<"notes">>,
               val |-> Str(<<"see", " ", "{", "map", "}", " ", Quote, "A", Quote>>)]
           >>),
      Dict(<< [k |-> <<"notes">>, val |-> Str(<<>>)],
              [k |-> <<"budget_estimate">>, val |-> Str(<<"3">>)],
              [k |-> <<"transportation">>, val |-> Str(<<"bus">>)],
              [k |-> <<"accommodation">>, val |-> Str(<<"hostel">>)],
              [k |-> <<"activities">>,
               val |-> List(<<Str(<<"b">>), Str(<<"a">>), Str(<<"b">>)>>)],
              [k |-> <<"end_date">>, val |-> Str(<<"null">>)],
              [k |-> <<"start_date">>, val |-> Str(<<"[", "]">>)],
              [k |-> <<"destination">>, val |-> Str(<<"Kyoto">>)] >>) }

\* free text without braces in front of and behind the JSON object
Wrappings ==
    { [pre |-> <<>>, post |-> <<>>],
      [pre |-> <<"Here", " ", "is", " ", "the", " ", "plan", ":", "\n">>,
       post |-> <<"\n", "Enjoy", "!">>] }

\* JSON objects that lack recognized keys
PartialPlans ==
    { Dict(<<>>),
      Dict(<< [k |-> <<"start_date">>, val |-> Str(<<"2025-03-16">>)],
              [k |-> <<"notes">>, val |-> Str(<<"bring", " ", "cash">>)],
              [k |-> <<"weather">>, val |-> Str(<<"rainy">>)] >>),
      Dict(<< [k |-> <<"start_date">>, val |-> Str(<<"2025-03-16">>)],
              [k |-> <<"end_date">>, val |-> Str(<<"2025-03-19">>)],
              [k |-> <<"activities">>, val |-> List(<<Str(<<"kimono">>)>>)],
              [k |-> <<"accommodation">>, val |-> Str(<<"ryokan">>)],
              [k |-> <<"transportation">>, val |-> Str(<<"train">>)],
              [k |-> <<"budget_estimate">>, val |-> Str(<<"42">>)],
              [k |-> <<"notes">>, val |-> Str(<<"ok">>)] >>) }

\* JSON objects whose values do not have the types of TravelPlan
MistypedPlans ==
    { Dict(<< [k |-> <<"destination">>, val |-> None],
              [k |-> <<"activities">>, val |-> Str(<<"hiking">>)],
              [k |-> <<"budget_estimate">>, val |-> Num("42")],
              [k |-> <<"notes">>, val |-> Dict(<<>>)] >>) }

\* texts with braces that json.loads rejects
MalformedTexts ==
    { <<"{", "plan", "}">>,
      <<"{", Quote, "notes", Quote, ":", " ", Quote, "open", "}">>,
      Dumps(Dict(<< [k |-> <<"notes">>, val |-> Str(<<"one">>)] >>))
          \o <<" ">>
          \o Dumps(Dict(<< [k |-> <<"notes">>, val |-> Str(<<"two">>)] >>)),
      <<"{", Quote, "notes", Quote, ":", " ", "3", ",", "}">> }

\* texts in which no opening brace precedes a closing brace
UnbracedTexts ==
    { <<>>,
      <<"no", " ", "plan", " ", "today">>,
      <<"}", " ", "{">>,
      <<"only", " ", "{">>,
      <<"only", " ", "}">> }

OptimizationTexts ==
    {w.pre \o Dumps(o) \o w.post : o \in FullPlans, w \in Wrappings}
    \cup {Dumps(o) : o \in PartialPlans \cup MistypedPlans}
    \cup MalformedTexts
    \cup UnbracedTexts

\* the text in n responses: the odd ones carry their part in two text items,
\* the even ones an item without text in front of their part
Cut(text, i, n) == (Len(text) * i) \div n

Script(text, n) ==
    [i \in 1..n |->
        LET part == SubSeq(text, Cut(text, i - 1, n) + 1, Cut(text, i, n))
            half == Len(part) \div 2
        IN IF i % 2 = 1
           THEN << Text(SubSeq(part, 1, half)),
                   Text(SubSeq(part, half + 1, Len(part))) >>
           ELSE << NoText, Text(part) >>]

-----------------------------------------------------------------------------
(* The steps of create_travel_plan: one between two awaits *)

NoResponses == [research_response |-> <<>>, planning_response |-> <<>>,
                optimization_response |-> <<>>]

\* the call of invoke_stream on an agent: the agent settles what it will yield
Invoke(prompt, text, n) ==
    /\ stream' = Script(text, n)
    /\ invoked' = Append(invoked, [prompt |-> prompt, script |-> Script(text, n)])

\* lines 101-116
InvokeResearch ==
    /\ pc = "start"
    /\ \E text \in ResearchTexts, n \in 1..MaxChunks :
          Invoke(research_prompt(args.destination, args.dates), text, n)
    /\ acc' = [acc EXCEPT !.research_response = <<>>]
    /\ pc' = "research"
    /\ UNCHANGED <<args, arrived, plan, collections, last,
                 reminders, reply>>

\* lines 116-120
ReceiveResearch ==
    /\ pc = "research"
    /\ stream # <<>>
    /\ acc' = [acc EXCEPT !.research_response = Accumulate(@, Head(stream))]
    /\ arrived' = [arrived EXCEPT !.research = @ \o Head(stream)]
    /\ stream' = Tail(stream)
    /\ UNCHANGED <<pc, args, invoked, plan, collections, last,
                 reminders, reply>>

\* lines 122-144
InvokePlanning ==
    /\ pc = "research"
    /\ stream = <<>>
    /\ \E text \in PlanningTexts, n \in 1..MaxChunks :
          Invoke(planning_prompt(args.destination, args.dates, args.preferences,
                                 acc.research_response), text, n)
    /\ acc' = [acc EXCEPT !.planning_response = <<>>]
    /\ pc' = "plan"
    /\ UNCHANGED <<args, arrived, plan, collections, last,
                 reminders, reply>>

\* lines 144-148
ReceivePlanning ==
    /\ pc = "plan"
    /\ stream # <<>>
    /\ acc' = [acc EXCEPT !.planning_response = Accumulate(@, Head(stream))]
    /\ arrived' = [arrived EXCEPT !.plan = @ \o Head(stream)]
    /\ stream' = Tail(stream)
    /\ UNCHANGED <<pc, args, invoked, plan, collections, last,
                 reminders, reply>>

\* lines 150-173
InvokeOptimization ==
    /\ pc = "plan"
    /\ stream = <<>>
    /\ \E text \in OptimizationTexts, n \in 1..MaxChunks :
          Invoke(optimization_prompt(args.destination, args.dates,
                                     args.preferences, acc.planning_response),
                 text, n)
    /\ acc' = [acc EXCEPT !.optimization_response = <<>>]
    /\ pc' = "optimize"
    /\ UNCHANGED <<args, arrived, plan, collections, last,
                 reminders, reply>>

\* lines 173-177
ReceiveOptimization ==
    /\ pc = "optimize"
    /\ stream # <<>>
    /\ acc' = [acc EXCEPT !.optimization_response = Accumulate(@, Head(stream))]
    /\ arrived' = [arrived EXCEPT !.optimize = @ \o Head(stream)]
    /\ stream' = Tail(stream)
    /\ UNCHANGED <<pc, args, invoked, plan, collections, last,
                 reminders, reply>>

\* a failing invoke_stream caught like a json.loads failure: the call returns
\* the fallback TravelPlan
StageFails_caught ==
    /\ pc \in Stages
    /\ pc' = "done"
    /\ stream' = <<>>
    /\ plan' = FallbackPlan(args.destination, args.dates,
                            acc.optimization_response)
    /\ UNCHANGED <<args, acc, invoked, arrived, collections, last,
                 reminders, reply>>

\* an invoke_stream raises while its stage awaits it: nothing catches it
StageFails ==
    /\ pc \in Stages
    /\ pc' = "stage_failed"
    /\ stream' = <<>>
    /\ UNCHANGED <<args, acc, invoked, arrived, plan, collections, last,
                 reminders, reply>>

\* lines 179-223
ExtractPlan ==
    /\ pc = "optimize"
    /\ stream = <<>>
    /\ LET e == Extract(args.destination, args.dates, acc.optimization_response)
       IN /\ pc' = IF e.raised THEN "raised" ELSE "done"
          /\ plan' = e.plan
    /\ UNCHANGED <<args, stream, acc, invoked, arrived, collections, last,
                 reminders, reply>>

\* a call of create_travel_plan with its arguments
PlanInit ==
    /\ pc = "start"
    /\ args \in [destination : Destinations, dates : DatesSet,
                 preferences : PreferencesSet]
    /\ stream = <<>>
    /\ acc = NoResponses
    /\ invoked = <<>>
    /\ arrived = [research |-> <<>>, plan |-> <<>>, optimize |-> <<>>]
    /\ plan = <<>>
    /\ collections = <<>>
    /\ last = NoCall
    /\ reminders = <<>>
    /\ reply = NoReply

PlanNext ==
    \/ InvokeResearch
    \/ ReceiveResearch
    \/ InvokePlanning
    \/ ReceivePlanning
    \/ InvokeOptimization
    \/ ReceiveOptimization
    \/ StageFails
    \/ ExtractPlan

PlanSpec == PlanInit /\ [][PlanNext]_vars

-----------------------------------------------------------------------------
(* Properties of create_travel_plan *)

RECURSIVE Flatten(_)
Flatten(responses) ==
    IF responses = <<>> THEN <<>>
    ELSE Head(responses) \o Flatten(Tail(responses))

\* the text increments among the items, concatenated in their order
RECURSIVE JoinTexts(_)
JoinTexts(items) ==
    IF items = <<>> THEN <<>>
    ELSE (IF Head(items).has_text THEN Head(items).text ELSE <<>>)
         \o JoinTexts(Tail(items))

AgentOrder == <<"researcher", "planner", "optimizer">>

\* C7: the agents are invoked once each in the order researcher, planner,
\* optimizer; an agent is invoked only when the stream of the one before is
\* exhausted; the planner's prompt carries all text the researcher produced,
\* and the optimizer's prompt all text the planner produced, in arrival order.
C7_Sequential ==
    /\ [](/\ Len(invoked) <= 3
          /\ \A k \in 1..Len(invoked) : invoked[k].prompt.agent = AgentOrder[k]
          /\ pc = "done" => Len(invoked) = 3
          /\ Len(invoked) >= 2 =>
                /\ arrived.research = Flatten(invoked[1].script)
                /\ invoked[2].prompt.research_response
                      = JoinTexts(Flatten(invoked[1].script))
          /\ Len(invoked) >= 3 =>
                /\ arrived.plan = Flatten(invoked[2].script)
                /\ invoked[3].prompt.planning_response
                      = JoinTexts(Flatten(invoked[2].script)))
    /\ [][invoked' # invoked =>
              /\ stream = <<>>
              /\ Len(invoked') = Len(invoked) + 1
              /\ SubSeq(invoked', 1, Len(invoked)) = invoked]_vars

\* a finished run whose researcher and planner streamed their text in several
\* responses, some items without text
C7_Witness ==
    /\ pc = "done"
    /\ Len(invoked) = 3
    /\ \A k \in 1..2 :
          /\ Len(invoked[k].script) >= 2
          /\ \E i \in 1..Len(Flatten(invoked[k].script)) :
                ~Flatten(invoked[k].script)[i].has_text
    /\ Len(invoked[2].prompt.research_response) >= 2
    /\ Len(invoked[3].prompt.planning_response) >= 2

Populated(p) ==
    /\ DOMAIN p = Fields
    /\ \A f \in Fields : p[f].t \in {"str", "list", "null", "num", "obj"}

\* C8: once the three streams are exhausted without a failure, the call
\* returns a TravelPlan with all eight fields set and raises nothing, whatever
\* the final text is.
C8_AlwaysReturns ==
    /\ pc # "raised"
    /\ (pc = "optimize" /\ stream = <<>>) =>
          LET e == Extract(args.destination, args.dates,
                           acc.optimization_response)
          IN ~e.raised /\ Populated(e.plan)
    /\ (Len(invoked) = 3 /\ pc \notin Stages \cup {"stage_failed"}) =>
          (pc = "done" /\ Populated(plan))

\* a run that returned although json.loads had raised
C8_Witness ==
    /\ pc = "done"
    /\ Populated(plan)
    /\ TryExtract(args.destination, args.dates,
                  acc.optimization_response).exception

\* the field a recognized key goes to
KeyOf(field) == <<field>>

\* C9: when the final text is one JSON object with all eight recognized keys,
\* with or without brace-free text around it, every field of the returned
\* TravelPlan is the JSON value of its key, activities in their order.
C9_RoundTrip ==
    pc = "done" =>
        \A o \in FullPlans, w \in Wrappings :
            acc.optimization_response = w.pre \o Dumps(o) \o w.post =>
                \A f \in Fields :
                    \E i \in 1..Len(o.v) :
                        o.v[i].k = KeyOf(f) /\ plan[f] = o.v[i].val

\* a run that returned the values of a JSON object wrapped in free text
C9_Witness ==
    /\ pc = "done"
    /\ \E o \in FullPlans, w \in Wrappings :
          /\ w.pre # <<>>
          /\ w.post # <<>>
          /\ acc.optimization_response = w.pre \o Dumps(o) \o w.post
          /\ Len(plan.activities.v) = 3
          /\ plan.destination # Str(args.destination)

\* the final text holds a brace-delimited substring that parses as an object
ParsedObject(text) ==
    /\ JsonStart(text) >= 0
    /\ JsonEnd(text) > JsonStart(text)
    /\ JsonLoads(Slice(text, JsonStart(text), JsonEnd(text))).ok

LoadedObject(text) == JsonLoads(Slice(text, JsonStart(text), JsonEnd(text))).val

Lacks(object, field) == \A i \in 1..Len(object.v) : object.v[i].k # KeyOf(field)

\* C10 as stated: a recognized key the parsed object lacks leaves its field
\* empty: the empty sequence for activities, the empty string for the others.
C10_MissingKeysEmpty ==
    (pc = "done" /\ ParsedObject(acc.optimization_response)) =>
        \A f \in Fields :
            Lacks(LoadedObject(acc.optimization_response), f) =>
                plan[f] = IF f = "activities" THEN List(<<>>) ELSE Str(<<>>)

\* C10 as amended: a recognized key the parsed object lacks leaves its field
\* at its default: the empty sequence for activities, the caller's destination
\* argument for destination, the empty string for the other six.
C10_MissingKeysDefault ==
    (pc = "done" /\ ParsedObject(acc.optimization_response)) =>
        \A f \in Fields :
            Lacks(LoadedObject(acc.optimization_response), f) =>
                plan[f] = CASE f = "activities"  -> List(<<>>)
                            [] f = "destination" -> Str(args.destination)
                            [] OTHER             -> Str(<<>>)

\* a run whose parsed object had neither destination nor activities but had
\* other recognized keys
C10_Witness ==
    /\ pc = "done"
    /\ ParsedObject(acc.optimization_response)
    /\ Lacks(LoadedObject(acc.optimization_response), "destination")
    /\ Lacks(LoadedObject(acc.optimization_response), "activities")
    /\ Lacks(LoadedObject(acc.optimization_response), "end_date")
    /\ ~Lacks(LoadedObject(acc.optimization_response), "notes")
    /\ plan.destination = Str(args.destination)

NoBraces(text) == \A i \in 1..Len(text) : text[i] \notin {"{", "}"}

\* C11 as stated: when the final text holds no brace, notes is the whole
\* final text and five of the other fields equal the placeholder string.
C11_FallbackFivePlaceholders ==
    (pc = "done" /\ NoBraces(acc.optimization_response)) =>
        /\ plan.notes = Str(acc.optimization_response)
        /\ Cardinality({f \in Fields \ {"notes"} :
                            plan[f] = Str(Placeholder)}) = 5

\* C11 as amended: when the final text holds no brace, notes is the whole
\* final text, accommodation, transportation and budget_estimate equal the
\* placeholder string, and activities is the one-element sequence of it.
C11_FallbackPlaceholders ==
    (pc = "done" /\ NoBraces(acc.optimization_response)) =>
        /\ plan.notes = Str(acc.optimization_response)
        /\ plan.accommodation = Str(Placeholder)
        /\ plan.transportation = Str(Placeholder)
        /\ plan.budget_estimate = Str(Placeholder)
        /\ plan.activities = List(<<Str(Placeholder)>>)

\* a run that returned on a final text of several words without a brace
C11_Witness ==
    /\ pc = "done"
    /\ NoBraces(acc.optimization_response)
    /\ Len(acc.optimization_response) >= 2
    /\ plan.notes = Str(acc.optimization_response)

\* the final text holds an opening brace in front of its last closing brace
BraceSpan(text) == JsonStart(text) >= 0 /\ JsonEnd(text) > JsonStart(text)

\* the value has the type class TravelPlan declares for the field
WellTyped(field, value) ==
    IF field = "activities"
    THEN /\ value.t = "list"
         /\ \A i \in 1..Len(value.v) : value.v[i].t = "str"
    ELSE value.t = "str"

\* the object carries a recognized key whose value has the wrong type
Mistyped(object) ==
    \E i \in 1..Len(object.v) :
        \E f \in Fields :
            object.v[i].k = KeyOf(f) /\ ~WellTyped(f, object.v[i].val)

\* C12: when a brace span is found and it is malformed JSON or carries a
\* recognized key of the wrong type, the call raises nothing and returns the
\* fallback TravelPlan of the no-brace case.
C12_ParseFailureFallsBack ==
    /\ pc # "raised"
    /\ (pc = "done" /\ BraceSpan(acc.optimization_response)) =>
          LET text   == acc.optimization_response
              loaded == JsonLoads(Slice(text, JsonStart(text), JsonEnd(text)))
          IN (~loaded.ok \/ Mistyped(loaded.val)) =>
                 plan = FallbackPlan(args.destination, args.dates, text)

\* the part of C12 about malformed JSON alone
C12_MalformedFallsBack ==
    /\ pc # "raised"
    /\ (pc = "done" /\ BraceSpan(acc.optimization_response)) =>
          LET text   == acc.optimization_response
              loaded == JsonLoads(Slice(text, JsonStart(text), JsonEnd(text)))
          IN ~loaded.ok =>
                 plan = FallbackPlan(args.destination, args.dates, text)

\* the call returned the TravelPlan of lines 201-210 or 214-223
TookFallback(text) ==
    \/ ~BraceSpan(text)
    \/ ~JsonLoads(Slice(text, JsonStart(text), JsonEnd(text))).ok

\* the text in front of and behind the first delimiter
BeforeDelimiter(dates) == SubSeq(dates, 1, Find(dates, Delimiter))
AfterDelimiter(dates)  == SubSeq(dates, Find(dates, Delimiter) + 2, Len(dates))

\* C13: in the fallback TravelPlan a dates string with the delimiter is split
\* in two: start_date is the trimmed text before the delimiter, end_date the
\* trimmed text after it; without the delimiter start_date is the whole
\* string and end_date is empty.
C13_DateSplit ==
    (pc = "done" /\ TookFallback(acc.optimization_response)) =>
        IF Delimiter \in Range(args.dates)
        THEN /\ plan.start_date = Str(Strip(BeforeDelimiter(args.dates)))
             /\ plan.end_date = Str(Strip(AfterDelimiter(args.dates)))
        ELSE /\ plan.start_date = Str(args.dates)
             /\ plan.end_date = Str(<<>>)

\* the part of C13 about dates strings with at most one delimiter
C13_DateSplitOnce ==
    (/\ pc = "done"
     /\ TookFallback(acc.optimization_response)
     /\ Cardinality({i \in 1..Len(args.dates) : args.dates[i] = Delimiter}) <= 1)
    =>
        IF Delimiter \in Range(args.dates)
        THEN /\ plan.start_date = Str(Strip(BeforeDelimiter(args.dates)))
             /\ plan.end_date = Str(Strip(AfterDelimiter(args.dates)))
        ELSE /\ plan.start_date = Str(args.dates)
             /\ plan.end_date = Str(<<>>)

\* every invoked agent yielded all the responses it had settled on
AllArrived ==
    /\ Len(invoked) >= 1 => arrived.research = Flatten(invoked[1].script)
    /\ Len(invoked) >= 2 => arrived.plan = Flatten(invoked[2].script)
    /\ Len(invoked) >= 3 => arrived.optimize = Flatten(invoked[3].script)

\* C14: a failing generation call ends create_travel_plan with its exception:
\* no TravelPlan is returned, no agent is invoked afterwards (neither the
\* failed one again nor a later one), and a TravelPlan is only ever returned
\* after all three agents were invoked and yielded their whole streams.
C14_FailurePropagates ==
    /\ [](/\ pc = "stage_failed" => plan = <<>>
          /\ plan # <<>> => (pc = "done" /\ Len(invoked) = 3 /\ AllArrived))
    /\ [][/\ pc = "stage_failed" =>
                (pc' = "stage_failed" /\ invoked' = invoked /\ plan' = plan)
          /\ pc' = "stage_failed" => (invoked' = invoked /\ plan' = <<>>)
          /\ invoked' # invoked => AllArrived]_vars

\* a run that failed while the planner was streaming, after part of its text
C14_Witness ==
    /\ pc = "stage_failed"
    /\ Len(invoked) = 2
    /\ acc.planning_response # <<>>
    /\ arrived.plan # Flatten(invoked[2].script)
    /\ plan = <<>>

-----------------------------------------------------------------------------
(* PersonalAssistant: the reminder functions *)

MaxReminders == 3   \* reminders in the list

Digits == <<"0", "1", "2", "3", "4", "5", "6", "7", "8", "9">>

IsDigit(ch) == \E d \in 1..10 : Digits[d] = ch
DigitValue(ch) == (CHOOSE d \in 1..10 : Digits[d] = ch) - 1

\* str(n) for an int n >= 0
RECURSIVE IntToStr(_)
IntToStr(n) ==
    IF n < 10 THEN <<Digits[n + 1]>>
    ELSE IntToStr(n \div 10) \o <<Digits[(n % 10) + 1]>>

RECURSIVE DigitsValue(_, _)
DigitsValue(s, value) ==
    IF s = <<>> THEN value
    ELSE IF Head(s) = "_" THEN DigitsValue(Tail(s), value)
    ELSE DigitsValue(Tail(s), 10 * value + DigitValue(Head(s)))

\* int(s): whitespace around, an optional sign, digits with single
\* underscores between them; ok is FALSE where int raises ValueError
ParseInt(s) ==
    LET t      == Strip(s)
        signed == t # <<>> /\ Head(t) \in {"+", "-"}
        body   == IF signed THEN Tail(t) ELSE t
        valid  == /\ body # <<>>
                  /\ IsDigit(body[1])
                  /\ IsDigit(body[Len(body)])
                  /\ \A i \in 1..Len(body) : IsDigit(body[i]) \/ body[i] = "_"
                  /\ \A i \in 1..(Len(body) - 1) :
                        ~(body[i] = "_" /\ body[i + 1] = "_")
    IN IF valid
       THEN [ok |-> TRUE,
             val |-> IF signed /\ Head(t) = "-"
                     THEN 0 - DigitsValue(body, 0) ELSE DigitsValue(body, 0)]
       ELSE [ok |-> FALSE, val |-> 0]

\* the words of line 97; "quanbu" stands for the second, two-character one
AllWords == { <<"a", "l", "l">>, <<"quanbu">> }

\* list.pop(i) for 0 <= i < len
Pop(list, i) == SubSeq(list, 1, i) \o SubSeq(list, i + 2, Len(list))

Tasks == { <<"meeting">>, <<"pay", " ", "rent">> }
Times == { <<"9am">> }
Ids   == {IntToStr(n) : n \in 0..(MaxReminders + 1)}
         \cup { <<" ", "2", " ">>, <<"-", "1">>, <<"+", "1">>, <<"1", "_", "0">>,
                <<"1", ".", "5">>, <<"x">>, <<>>, <<"2", "_">>,
                <<"A", "l", "l">>, <<" ", "quanbu">> }

\* PersonalAssistant.set_reminder
set_reminder(list, task, time) ==
    LET reminder_id == Len(list) + 1
    IN [reminders |-> Append(list, [id |-> IntToStr(reminder_id),
                                    task |-> task, time |-> time]),
        reply |-> [NoReply EXCEPT !.kind = "set", !.task = task, !.time = time,
                                  !.id = IntToStr(reminder_id)]]

\* delete_reminder with the range test 0 <= id_num <= len(self.reminders)
delete_reminder_zero(list, id) ==
    LET id_to_delete == Strip(id)
        id_num       == ParseInt(id_to_delete)
    IN IF Lower(id_to_delete) \in AllWords
       THEN [reminders |-> <<>>,
             reply |-> [NoReply EXCEPT !.kind = "deleted_all", !.count = Len(list)]]
       ELSE IF ~id_num.ok
       THEN [reminders |-> list,
             reply |-> [NoReply EXCEPT !.kind = "invalid", !.id = id_to_delete]]
       ELSE IF 0 <= id_num.val /\ id_num.val <= Len(list)
       THEN IF list = <<>>
            THEN [reminders |-> list,
                  reply |-> [NoReply EXCEPT !.raised = "IndexError"]]
            ELSE LET i == IF id_num.val = 0 THEN Len(list) - 1 ELSE id_num.val - 1
                 IN [reminders |-> Pop(list, i),
                     reply |-> [NoReply EXCEPT !.kind = "deleted",
                                               !.task = list[i + 1].task,
                                               !.time = list[i + 1].time]]
       ELSE [reminders |-> list,
             reply |-> [NoReply EXCEPT !.kind = "not_found", !.id = id_to_delete]]

\* PersonalAssistant.delete_reminder
delete_reminder(list, id) ==
    LET id_to_delete == Strip(id)
        id_num       == ParseInt(id_to_delete)
    IN IF Lower(id_to_delete) \in AllWords
       THEN [reminders |-> <<>>,
             reply |-> [NoReply EXCEPT !.kind = "deleted_all", !.count = Len(list)]]
       ELSE IF ~id_num.ok
       THEN [reminders |-> list,
             reply |-> [NoReply EXCEPT !.kind = "invalid", !.id = id_to_delete]]
       ELSE IF 1 <= id_num.val /\ id_num.val <= Len(list)
       THEN [reminders |-> Pop(list, id_num.val - 1),
             reply |-> [NoReply EXCEPT !.kind = "deleted",
                                       !.task = list[id_num.val].task,
                                       !.time = list[id_num.val].time]]
       ELSE [reminders |-> list,
             reply |-> [NoReply EXCEPT !.kind = "not_found", !.id = id_to_delete]]

SetReminder(task, time) ==
    /\ Len(reminders) < MaxReminders
    /\ LET r == set_reminder(reminders, task, time)
       IN /\ reminders' = r.reminders
          /\ reply' = [r.reply EXCEPT !.op = "set_reminder"]
    /\ UNCHANGED <<memVars, planVars>>

DeleteReminder(id) ==
    /\ LET r == delete_reminder(reminders, id)
       IN /\ reminders' = r.reminders
          /\ reply' = [r.reply EXCEPT !.op = "delete_reminder", !.arg = id]
    /\ UNCHANGED <<memVars, planVars>>

\* a fresh PersonalAssistant
RemInit ==
    /\ reminders = <<>>
    /\ reply = NoReply
    /\ collections = <<>>
    /\ last = NoCall
    /\ pc = "idle"
    /\ args = <<>>
    /\ stream = <<>>
    /\ acc = <<>>
    /\ invoked = <<>>
    /\ arrived = <<>>
    /\ plan = <<>>

RemNext ==
    \/ \E task \in Tasks, time \in Times : SetReminder(task, time)
    \/ \E id \in Ids : DeleteReminder(id)

RemSpec == RemInit /\ [][RemNext]_vars

-----------------------------------------------------------------------------
(* Properties of the reminder functions *)

\* the identifier is neither one of the two words nor an integer in
\* 1..len(reminders)
Rejected(list, id) ==
    /\ Lower(Strip(id)) \notin AllWords
    /\ \/ ~ParseInt(Strip(id)).ok
       \/ ParseInt(Strip(id)).val \notin 1..Len(list)

\* C15: delete_reminder called with an identifier that does not parse as an
\* integer (and is not one of the two "all" words), or with an integer outside
\* 1..len(reminders), returns a descriptive message naming the identifier,
\* raises nothing and leaves the reminder list unchanged.
C15_BadIdRejected ==
    [][(reply'.op = "delete_reminder" /\ Rejected(reminders, reply'.arg)) =>
          /\ reminders' = reminders
          /\ reply'.raised = "none"
          /\ reply'.id = Strip(reply'.arg)
          /\ reply'.kind = IF ParseInt(Strip(reply'.arg)).ok
                           THEN "not_found" ELSE "invalid"]_vars

\* delete_reminder("0") was answered "not found" with reminders in the list
C15_Witness ==
    /\ reply.op = "delete_reminder"
    /\ reply.arg = <<"0">>
    /\ reply.kind = "not_found"
    /\ Len(reminders) >= 2

\* delete_reminder answered "invalid" to an identifier int() refuses
C15_WitnessInvalid ==
    /\ reply.op = "delete_reminder"
    /\ reply.arg = <<"1", ".", "5">>
    /\ reply.kind = "invalid"
    /\ Len(reminders) >= 2

\* the positions of the reminders whose stored "id" is k
Carrying(list, k) == {i \in 1..Len(list) : list[i].id = k}

\* C16: delete_reminder(k), where k is the ID that set_reminder reported for a
\* reminder still in the list, removes exactly the reminder whose stored "id"
\* is k, and no other.
C16_DeletesReportedId ==
    [][(reply'.op = "delete_reminder" /\ Carrying(reminders, reply'.arg) # {}) =>
          \E i \in Carrying(reminders, reply'.arg) :
              reminders' = Pop(reminders, i - 1)]_vars

\* C17: the reminders in the list have pairwise distinct "id" values.
C17_DistinctIds ==
    \A i, j \in 1..Len(reminders) :
        i # j => reminders[i].id # reminders[j].id

-----------------------------------------------------------------------------
(* Properties of query_with_memory *)

\* the lines of context that list the texts of the records, in their order
RECURSIVE Listed(_)
Listed(results) ==
    IF results = <<>> THEN <<>>
    ELSE <<"- ">> \o Head(results).text \o <<Newline>> \o Listed(Tail(results))

\* C18: query_with_memory raises nothing; when memory.search returns records
\* the enhanced query lists the text of every one of them, in ranked order,
\* before the question, and when it returns none the enhanced query holds
\* only the question.
C18_PromptListsRecords ==
    last.op = "query_with_memory" =>
        /\ last.raised = "none"
        /\ last.prompt =
              (IF last.result = <<>> THEN <<>>
               ELSE <<Header, Newline>> \o Listed(last.result))
              \o <<Newline, Question>> \o last.query \o <<Newline, Instruction>>

\* C18, the case of no record: the enhanced query holds only the question
C18_EmptyOnlyQuestion ==
    (last.op = "query_with_memory" /\ last.result = <<>>) =>
        /\ last.raised = "none"
        /\ last.prompt = <<Newline, Question>> \o last.query
                            \o <<Newline, Instruction>>

====
